---------------------------- MODULE Spec2Model ----------------------------
(***************************************************************************)
(* Batch scoring in ScorePanel: handleBatchExecute runs the rows of a CSV  *)
(* file against the scoring endpoint with a bounded number of concurrent   *)
(* workers (processNext), collects one BatchResult per row (executeRow),   *)
(* publishes live snapshots and finally computes BatchStats.               *)
(*                                                                         *)
(* JavaScript runs the handlers on one event loop: every action below is   *)
(* the code between two suspension points (await).                         *)
(***************************************************************************)
EXTENDS Integers, Sequences, FiniteSets, TLC

\* ------------------------------------------------------------------ bounds
MaxRows == 2          \* rows of the uploaded CSV file: 1..MaxRows
MaxTime == 1          \* performance.now() takes the values 0..MaxTime
MaxConc == 3          \* values typed into the "Parallel Requests" field: 0..MaxConc
MaxStatRows == 4      \* rows of the completed batches the statistics are computed on
MaxPoolRows == 3      \* rows of the batches in which workers compete for rows
MaxExportRows == 2    \* rows of the batches that are exported

\* ------------------------------------------------------- program constants
DefaultConcurrency == 2    \* CsvUpload: useState<number>(2)
ConcurrencyFloor == 1      \* CsvUpload onChange: val >= 1
ConcurrencyCeiling == 100  \* CsvUpload onChange: val <= 100
Percent == 100             \* successRate: (successCount / length) * 100

VARIABLES
    stepInputsValid,  \* the step prop: buildStepInput(step, input) returns (TRUE) or throws
    rowCount,         \* rows.length of the running handleBatchExecute call
    concurrency,      \* CsvUpload state, passed to onExecuteBatch(rows, concurrency)
    pc,               \* position of handleBatchExecute: idle, running, done, failed
    batchExecuting,   \* React state of ScorePanel
    batchProgress,
    batchResults,
    batchStats,
    results,          \* const results = new Array(rows.length), indexed 0..N-1
    completedCount,
    currentIndex,     \* the shared cursor of processWithConcurrency
    batchStartTime,
    totalRuntime,
    workers,          \* the processNext() promises, one record per worker
    now,              \* performance.now()
    claimed,          \* history: how often each row index was claimed
    written,          \* history: how often results[index] was assigned
    settled,          \* history: how the call of each row ended
    csvContent,       \* the text of the last file handed to the browser's download
    connections,         \* tokenStore: the saved connections, in list order
    activeConnectionId,  \* tokenStore: the active id, NoId for null
    tokensByConnection,  \* tokenStore: id -> StoredTokens, for the ids that have tokens
    nextId,              \* the next id randomUUID() hands out
    refreshInFlight,     \* main: the refresh promise, NoPromise for null
    refreshes,           \* main: the refresh promises created so far
    lastAccess,          \* what the latest auth:getAccessToken call returned
    csrfToken,           \* api/client: the cached CSRF token, Null for null
    requests,            \* api/client: the requests made through apiClient
    login                \* main: the login attempt of auth:startLogin

batchVars == <<stepInputsValid, rowCount, concurrency, pc, batchExecuting, batchProgress,
               batchResults, batchStats, results, completedCount, currentIndex,
               batchStartTime, totalRuntime, workers, now, claimed, written, settled>>
exportVars == <<csvContent>>
\* What the batch handlers of ScorePanel never write.
storeVars == <<connections, activeConnectionId, tokensByConnection, nextId>>
refreshVars == <<refreshInFlight, refreshes, lastAccess>>
clientVars == <<csrfToken, requests>>
loginVars == <<login>>
otherVars == <<exportVars, storeVars, refreshVars, clientVars, loginVars>>
vars == <<batchVars, otherVars>>

\* ------------------------------------------------------------ JS values
Null == "<null>"
EmptyString == ""
Truthy(v) == v # Null /\ v # EmptyString

Min(a, b) == IF a <= b THEN a ELSE b
Max(a, b) == IF a >= b THEN a ELSE b

\* A hole of `new Array(n)`: reads as undefined.
Undefined == [rowIndex |-> -1, input |-> <<>>, output |-> Null, error |-> Null,
              executionTime |-> -1]
IsUndefined(r) == r.rowIndex = -1

NoStats == [totalRequests |-> -1]

\* rows[index]: the contents of a row play no part in the batch logic.
RowInput(index) == <<"row", index>>

\* --------------------------------------------- the remote call's outcomes
\* executeStep resolves with response.data (a StepOutput object, the empty
\* string axios yields for an empty body, or null for the JSON body "null") or
\* rejects with what was thrown.
StepOutputPayload == "StepOutput"
Outcomes ==
    { [kind |-> "resolve", isError |-> FALSE, value |-> StepOutputPayload],
      [kind |-> "resolve", isError |-> FALSE, value |-> EmptyString],
      [kind |-> "resolve", isError |-> FALSE, value |-> Null],
      [kind |-> "reject",  isError |-> TRUE,  value |-> "Network Error"],
      [kind |-> "reject",  isError |-> TRUE,  value |-> EmptyString],
      [kind |-> "reject",  isError |-> FALSE, value |-> "thrown value"] }

\* buildStepInput throwing (step.inputs is not an array): a TypeError.
BuildFailure == [kind |-> "reject", isError |-> TRUE, value |-> "TypeError"]

\* The value a rejection leaves in `err`, as the catch block reads it.
ErrorText(o) == IF o.isError THEN o.value ELSE "Unknown error"

\* executeRow without its catch block: a failure rejects the returned promise.
executeRowNoCatch(rowIndex, input, o, requestStartTime, requestEndTime) ==
    IF o.kind = "resolve"
    THEN [rejected |-> FALSE,
          result |-> [rowIndex |-> rowIndex, input |-> input, output |-> o.value,
                      error |-> Null,
                      executionTime |-> requestEndTime - requestStartTime]]
    ELSE [rejected |-> TRUE, result |-> Undefined]

\* executeRow: the promise it returns is fulfilled with a BatchResult in both
\* branches of the try/catch.
executeRow(rowIndex, input, o, requestStartTime, requestEndTime) ==
    IF o.kind = "resolve"
    THEN [rejected |-> FALSE,
          result |-> [rowIndex |-> rowIndex, input |-> input, output |-> o.value,
                      error |-> Null,
                      executionTime |-> requestEndTime - requestStartTime]]
    ELSE [rejected |-> FALSE,
          result |-> [rowIndex |-> rowIndex, input |-> input, output |-> Null,
                      error |-> ErrorText(o),
                      executionTime |-> requestEndTime - requestStartTime]]

\* ------------------------------------------------------------- sorting
\* The comparator with its operands exchanged.
CompareDescending(a, b) == b.rowIndex - a.rowIndex
\* (a, b) => a.rowIndex - b.rowIndex
Compare(a, b) == a.rowIndex - b.rowIndex

RECURSIVE InsertResult(_, _)
InsertResult(x, s) ==
    IF s = <<>> THEN <<x>>
    ELSE IF Compare(x, Head(s)) < 0 THEN <<x>> \o s
    ELSE <<Head(s)>> \o InsertResult(x, Tail(s))

RECURSIVE SortDefined(_)
SortDefined(s) ==
    IF s = <<>> THEN <<>>
    ELSE InsertResult(s[Len(s)], SortDefined(SubSeq(s, 1, Len(s) - 1)))

\* Array.prototype.sort with a comparator: undefined elements go to the end
\* without the comparator being called on them.
SortResults(s) ==
    SortDefined(SelectSeq(s, LAMBDA r : ~IsUndefined(r)))
        \o SelectSeq(s, LAMBDA r : IsUndefined(r))

\* [...results]: the array of n slots read as a list, holes as undefined.
Spread(arr, n) == [k \in 1..n |-> arr[k - 1]]

\* The snapshot taken without the filter: pending rows read as undefined.
LiveSnapshotUnfiltered(arr, n) == SortResults(Spread(arr, n))
\* results.filter(r => r !== undefined), then [...currentResults].sort(...)
LiveSnapshot(arr, n) ==
    SortResults(SelectSeq(Spread(arr, n), LAMBDA r : ~IsUndefined(r)))

\* The final list in descending order.
FinalResultsDescending(arr, n) ==
    LET s == SortResults(Spread(arr, n)) IN [k \in 1..Len(s) |-> s[Len(s) + 1 - k]]
\* const sortedResults = [...results].sort(...)
FinalResults(arr, n) == SortResults(Spread(arr, n))

\* (a, b) => a - b on the execution times
RECURSIVE InsertTime(_, _)
InsertTime(x, s) ==
    IF s = <<>> THEN <<x>>
    ELSE IF x - Head(s) < 0 THEN <<x>> \o s
    ELSE <<Head(s)>> \o InsertTime(x, Tail(s))

RECURSIVE SortTimes(_)
SortTimes(s) ==
    IF s = <<>> THEN <<>>
    ELSE InsertTime(s[Len(s)], SortTimes(SubSeq(s, 1, Len(s) - 1)))

\* ----------------------------------------------------------- statistics
\* Quotients are kept exact, as reduced fractions num/den.
RECURSIVE GCD(_, _)
GCD(a, b) == IF b = 0 THEN a ELSE GCD(b, a % b)

Frac(n, d) == LET g == GCD(n, d) IN [num |-> n \div g, den |-> d \div g]

RECURSIVE SumSeq(_)
SumSeq(s) == IF s = <<>> THEN 0 ELSE Head(s) + SumSeq(Tail(s))

\* The first row's time taken for the fastest.
MinSeqFirstRow(s) == s[1]

RECURSIVE MinSeq(_)
MinSeq(s) == IF Len(s) = 1 THEN s[1] ELSE Min(Head(s), MinSeq(Tail(s)))

RECURSIVE MaxSeq(_)
MaxSeq(s) == IF Len(s) = 1 THEN s[1] ELSE Max(Head(s), MaxSeq(Tail(s)))

\* filter(r => r.output && !r.error).length
SuccessCount(rs) == Len(SelectSeq(rs, LAMBDA r : Truthy(r.output) /\ ~Truthy(r.error)))
\* filter(r => r.error).length
ErrorCount(rs) == Len(SelectSeq(rs, LAMBDA r : Truthy(r.error)))

\* The even case taking the upper middle element alone.
MedianUpperMiddle(sortedTimes) == Frac(sortedTimes[Len(sortedTimes) \div 2 + 1], 1)

\* medianResponse: sortedTimes.length % 2 === 0 ? (...) / 2 : sortedTimes[floor]
Median(sortedTimes) ==
    LET len == Len(sortedTimes) IN
    IF len % 2 = 0
    THEN Frac(sortedTimes[len \div 2] + sortedTimes[len \div 2 + 1], 2)
    ELSE Frac(sortedTimes[len \div 2 + 1], 1)

\* const stats: BatchStats = {...}; sortedResults has no hole. On an empty list
\* the quotients are 0 / 0 and Math.min() and Math.max() have no argument.
stats(sortedResults, runtime) ==
    IF sortedResults = <<>>
    THEN [totalRuntime |-> runtime, avgRequestTime |-> "NaN", successRate |-> "NaN",
          fastestResponse |-> "Infinity", slowestResponse |-> "-Infinity",
          medianResponse |-> "NaN", totalRequests |-> 0, successCount |-> 0,
          errorCount |-> 0]
    ELSE
    LET executionTimes == [k \in 1..Len(sortedResults) |-> sortedResults[k].executionTime]
        sortedTimes == SortTimes(executionTimes)
        successCount == SuccessCount(sortedResults)
        errorCount == ErrorCount(sortedResults)
    IN [totalRuntime |-> runtime,
        avgRequestTime |-> Frac(SumSeq(executionTimes), Len(executionTimes)),
        successRate |-> Frac(successCount * Percent, Len(sortedResults)),
        fastestResponse |-> MinSeq(executionTimes),
        slowestResponse |-> MaxSeq(executionTimes),
        medianResponse |-> Median(sortedTimes),
        totalRequests |-> Len(sortedResults),
        successCount |-> successCount,
        errorCount |-> errorCount]

\* The ascending times written back into the results they were read from.
ResultsSortedInPlace(sortedResults) ==
    LET sortedTimes ==
          SortTimes([k \in 1..Len(sortedResults) |-> sortedResults[k].executionTime])
    IN [k \in 1..Len(sortedResults) |->
          [sortedResults[k] EXCEPT !.executionTime = sortedTimes[k]]]

\* The array handed to setBatchResults once the statistics are computed:
\* sortedResults.map(...) and [...executionTimes] are new arrays of numbers and
\* the filters return new arrays, so sortedResults is not written to.
ResultsAfterStatistics(sortedResults) == sortedResults

\* ---------------------------------------------------------- worker pool
\* One worker per unit of concurrency, whatever the number of rows.
WorkerCountIgnoringRows(c, n) == c
\* One worker per row, whatever the concurrency.
WorkerCountIgnoringConcurrency(c, n) == n
\* Array(Math.min(concurrency, rows.length))
WorkerCount(c, n) == Min(c, n)

\* The loop test off by one.
HasMoreRowsButLast(cursor, n) == cursor < n - 1
\* while (currentIndex < rows.length)
HasMoreRows(cursor, n) == cursor < n

\* A claim that steps over the row after the one it takes.
NextCursorSkipping(cursor) == cursor + 2
\* A claim that leaves the cursor where it was.
NextCursorStuck(cursor) == cursor
\* const index = currentIndex++: the cursor after the claim
NextCursor(cursor) == cursor + 1

\* Promise.race in place of Promise.all.
PoolResolvedRace(ws) == \E k \in DOMAIN ws : ws[k].state = "done"
\* Promise.all(workers) is fulfilled when every worker is, and rejected as
\* soon as one worker is.
\* A pool whose promise stays pending.
PoolNeverResolved(ws) == FALSE
PoolResolved(ws) == \A k \in DOMAIN ws : ws[k].state = "done"
PoolRejected(ws) == \E k \in DOMAIN ws : ws[k].state = "rejected"

DoneWorker == [state |-> "done", index |-> -1, requestStartTime |-> -1, call |-> "none"]

\* The call timed from the start of the batch.
ClaimRowFromBatchStart(cursor, n, t, valid) ==
    IF HasMoreRows(cursor, n)
    THEN [worker |-> [state |-> "await", index |-> cursor,
                      requestStartTime |-> batchStartTime,
                      call |-> IF valid THEN "remote" ELSE "local"],
          cursor |-> NextCursor(cursor),
          claimedIndex |-> cursor]
    ELSE [worker |-> DoneWorker, cursor |-> cursor, claimedIndex |-> -1]

\* One pass of processNext from the loop test to its await: the worker claims
\* the row under the cursor and enters executeRow, or leaves the loop.
\* executeRow takes requestStartTime, then buildStepInput returns and the
\* request is sent (call = "remote"), or it throws into the catch block
\* (call = "local": no request is sent).
ClaimRow(cursor, n, t, valid) ==
    IF HasMoreRows(cursor, n)
    THEN [worker |-> [state |-> "await", index |-> cursor, requestStartTime |-> t,
                      call |-> IF valid THEN "remote" ELSE "local"],
          cursor |-> NextCursor(cursor),
          claimedIndex |-> cursor]
    ELSE [worker |-> DoneWorker, cursor |-> cursor, claimedIndex |-> -1]

\* .fill(null).map(() => processNext()): the workers start one after another,
\* each running up to its first await.
RECURSIVE LaunchWorkers(_, _, _, _, _)
LaunchWorkers(count, cursor, n, t, valid) ==
    IF count <= 0 THEN <<>>
    ELSE LET c == ClaimRow(cursor, n, t, valid)
         IN <<c>> \o LaunchWorkers(count - 1, c.cursor, n, t, valid)

InFlight == {k \in DOMAIN workers : workers[k].state = "await"}
RowIndexes == 0..(rowCount - 1)

\* ------------------------------------------------------------------ Init
\* No file has been downloaded.
NoDownload == <<>>
\* null for an id and for a promise.
NoId == 0
NoPromise == 0
NoAccess == [kind |-> "none", promise |-> NoPromise, seq |-> 0]
\* The defaults of the store: no connection, no active id, no tokens.
StoreDefaults ==
    /\ connections = <<>>
    /\ activeConnectionId = NoId
    /\ tokensByConnection = <<>>
    /\ nextId = 1
RefreshInit ==
    /\ refreshInFlight = NoPromise
    /\ refreshes = <<>>
    /\ lastAccess = NoAccess
\* api/client: no token is cached and no request has been made.
MaxRequests == 2
NewRequest == [method |-> "GET", state |-> "new", csrfRetry |-> FALSE, header |-> Null,
               sent |-> 0, status |-> 0, newToken |-> Null, error |-> Null]
ClientInit ==
    /\ csrfToken = Null
    /\ requests = [r \in 1..MaxRequests |-> NewRequest]
\* No login window has been opened.
NoLogin == [connection |-> NoId, completed |-> FALSE, window |-> "none",
            exchanges |-> 0, exchange |-> "none", promise |-> "none"]
LoginInit == login = NoLogin
OtherInit ==
    /\ csvContent = NoDownload
    /\ StoreDefaults
    /\ RefreshInit
    /\ ClientInit
    /\ LoginInit

BatchInit ==
    /\ stepInputsValid \in BOOLEAN
    /\ rowCount = 0
    /\ concurrency = DefaultConcurrency
    /\ pc = "idle"
    /\ batchExecuting = FALSE
    /\ batchProgress = [current |-> 0, total |-> 0]
    /\ batchResults = <<>>
    /\ batchStats = NoStats
    /\ results = <<>>
    /\ completedCount = 0
    /\ currentIndex = 0
    /\ batchStartTime = 0
    /\ totalRuntime = 0
    /\ workers = <<>>
    /\ now = 0
    /\ claimed = <<>>
    /\ written = <<>>
    /\ settled = <<>>

Init == BatchInit /\ OtherInit

\* --------------------------------------------------------------- actions
\* CsvUpload: onChange of the "Parallel Requests" input (disabled={executing}).
setConcurrency(val) ==
    /\ ~batchExecuting
    /\ concurrency' = IF val >= ConcurrencyFloor /\ val <= ConcurrencyCeiling
                      THEN val ELSE concurrency
    /\ UNCHANGED <<stepInputsValid, rowCount, pc, batchExecuting, batchProgress,
                   batchResults, batchStats, results, completedCount, currentIndex,
                   batchStartTime, totalRuntime, workers, now, claimed, written,
                   settled>>
    /\ UNCHANGED otherVars

\* The body of handleBatchExecute(rows, concurrency) for n rows and the
\* concurrency c, up to await Promise.all(workers). The function tests neither
\* argument. Array(Math.min(concurrency, rows.length)) throws a RangeError on a
\* negative length: processWithConcurrency rejects and the handler ends in its
\* await, after the four setters and before any worker exists.
StartBatch(n, c) ==
    /\ LET launched == LaunchWorkers(WorkerCount(c, n), 0, n, now, stepInputsValid)
           count == Len(launched)
       IN /\ workers' = [k \in 1..count |-> launched[k].worker]
          /\ currentIndex' = IF count = 0 THEN 0 ELSE launched[count].cursor
          /\ claimed' = [i \in 0..(n - 1) |->
                           Cardinality({k \in 1..count : launched[k].claimedIndex = i})]
    /\ rowCount' = n
    /\ pc' = IF WorkerCount(c, n) < 0 THEN "failed" ELSE "running"
    /\ batchExecuting' = TRUE
    /\ batchProgress' = [current |-> 0, total |-> n]
    /\ batchResults' = <<>>
    /\ batchStats' = NoStats
    /\ results' = [i \in 0..(n - 1) |-> Undefined]
    /\ completedCount' = 0
    /\ batchStartTime' = now
    /\ written' = [i \in 0..(n - 1) |-> 0]
    /\ settled' = [i \in 0..(n - 1) |-> "pending"]
    /\ UNCHANGED <<stepInputsValid, totalRuntime, now>>
    /\ UNCHANGED otherVars

\* The "Run All" button of CsvUpload.
RunAllAlwaysEnabled(n) == TRUE
\* disabled={!allMapped || executing || csvData.rows.length === 0}
RunAllEnabled(n) == ~batchExecuting /\ n >= 1

\* CsvUpload "Run All": handleRunAll calls onExecuteBatch(rows, concurrency)
\* with the value of the "Parallel Requests" field.
handleBatchExecute(n) ==
    /\ RunAllEnabled(n)
    /\ StartBatch(n, concurrency)
    /\ UNCHANGED concurrency

\* The onExecuteBatch prop of ScorePanel called with any row list and any
\* number, while no batch is executing.
onExecuteBatch(n, c) ==
    /\ ~batchExecuting
    /\ concurrency' = c
    /\ StartBatch(n, c)

\* The call of worker w settles with outcome o; processNext resumes after its
\* await, stores the result, publishes progress and the live snapshot and
\* goes round its loop to the next await or to its end.
processNext(w, o) ==
    /\ w \in DOMAIN workers
    /\ workers[w].state = "await"
    /\ o \in (IF workers[w].call = "remote" THEN Outcomes ELSE {BuildFailure})
    /\ LET me == workers[w]
           index == me.index
           requestEndTime == IF me.call = "remote" THEN now ELSE me.requestStartTime
           r == executeRow(index, RowInput(index), o, me.requestStartTime,
                           requestEndTime)
           next == ClaimRow(currentIndex, rowCount, now, stepInputsValid)
       IN /\ settled' = [settled EXCEPT ![index] = o.kind]
          /\ IF r.rejected
             THEN /\ workers' = [workers EXCEPT ![w].state = "rejected"]
                  /\ UNCHANGED <<results, completedCount, batchProgress, batchResults,
                                 currentIndex, claimed, written>>
             ELSE /\ results' = [results EXCEPT ![index] = r.result]
                  /\ written' = [written EXCEPT ![index] = @ + 1]
                  /\ completedCount' = completedCount + 1
                  /\ batchProgress' = [current |-> completedCount + 1,
                                       total |-> rowCount]
                  /\ batchResults' = LiveSnapshot(results', rowCount)
                  /\ workers' = [workers EXCEPT ![w] = next.worker]
                  /\ currentIndex' = next.cursor
                  /\ claimed' = IF next.claimedIndex \in DOMAIN claimed
                                THEN [claimed EXCEPT ![next.claimedIndex] = @ + 1]
                                ELSE claimed
    /\ UNCHANGED <<stepInputsValid, rowCount, concurrency, pc, batchExecuting,
                   batchStats, batchStartTime, totalRuntime, now>>
    /\ UNCHANGED otherVars

\* The end time taken before the pool has run.
BatchRuntimeBeforePool(batchStart, batchEndTime) == batchStart - batchStart
\* const batchEndTime = performance.now(); totalRuntime = batchEndTime - batchStartTime
BatchRuntime(batchStart, batchEndTime) == batchEndTime - batchStart

\* handleBatchExecute resumes after await processWithConcurrency(): either the
\* rejection of the pool propagates out of the handler, or it takes the end
\* time, publishes the sorted list and computes the statistics (reading
\* r.executionTime of a hole throws a TypeError before the statistics are set).
handleBatchExecuteResume ==
    /\ pc = "running"
    /\ PoolResolved(workers) \/ PoolRejected(workers)
    /\ IF PoolRejected(workers)
       THEN /\ pc' = "failed"
            /\ UNCHANGED <<totalRuntime, batchResults, batchStats, batchExecuting>>
       ELSE \E sortedResults \in {FinalResults(results, rowCount)} :
            LET holes == \E k \in 1..Len(sortedResults) : IsUndefined(sortedResults[k])
            IN /\ totalRuntime' = BatchRuntime(batchStartTime, now)
               /\ batchResults' = ResultsAfterStatistics(sortedResults)
               /\ IF holes
                  THEN /\ pc' = "failed"
                       /\ UNCHANGED <<batchStats, batchExecuting>>
                  ELSE /\ pc' = "done"
                       /\ batchStats' = stats(sortedResults, totalRuntime')
                       /\ batchExecuting' = FALSE
    /\ UNCHANGED <<stepInputsValid, rowCount, concurrency, batchProgress, results,
                   completedCount, currentIndex, batchStartTime, workers, now, claimed,
                   written, settled>>
    /\ UNCHANGED otherVars

\* handleClearBatchResults: the "Clear Results" button of BatchResults, shown
\* when batchResults.length > 0 && !batchExecuting.
handleClearBatchResults ==
    /\ Len(batchResults) > 0
    /\ ~batchExecuting
    /\ batchResults' = <<>>
    /\ batchStats' = NoStats
    /\ UNCHANGED <<stepInputsValid, rowCount, concurrency, pc, batchExecuting,
                   batchProgress, results, completedCount, currentIndex,
                   batchStartTime, totalRuntime, workers, now, claimed, written,
                   settled>>
    /\ UNCHANGED otherVars

\* Time passes while calls are in flight.
Tick ==
    /\ pc = "running"
    /\ now < MaxTime
    /\ now' = now + 1
    /\ UNCHANGED <<stepInputsValid, rowCount, concurrency, pc, batchExecuting,
                   batchProgress, batchResults, batchStats, results, completedCount,
                   currentIndex, batchStartTime, totalRuntime, workers, claimed,
                   written, settled>>
    /\ UNCHANGED otherVars

\* Numbers typed into the "Parallel Requests" field: small ones, the largest
\* the field accepts and the first it ignores.
TypedValues == (0..MaxConc) \cup {ConcurrencyCeiling, ConcurrencyCeiling + 1}

Next ==
    \/ \E val \in TypedValues : setConcurrency(val)
    \/ \E n \in 1..MaxRows : handleBatchExecute(n)
    \/ \E w \in 1..Max(MaxRows, MaxConc), o \in Outcomes \cup {BuildFailure} : processNext(w, o)
    \/ handleBatchExecuteResume
    \/ handleClearBatchResults
    \/ Tick

Spec == Init /\ [][Next]_vars

\* ------------------------------------------- the handler called directly
\* handleBatchExecute with arguments the CsvUpload form never passes: an empty
\* row list, the concurrency 0 or a negative concurrency.
NextDirect ==
    \/ \E n \in 0..MaxRows, c \in (-1)..MaxConc : onExecuteBatch(n, c)
    \/ \E w \in 1..Max(MaxRows, MaxConc), o \in Outcomes \cup {BuildFailure} : processNext(w, o)
    \/ handleBatchExecuteResume
    \/ handleClearBatchResults
    \/ Tick

SpecDirect == Init /\ [][NextDirect]_vars

\* ------------------------------------------- statistics of a completed batch
\* The handler at its await with every worker ended: a batch of n rows run
\* with concurrency 1, row after row from time 0, each call taking one of
\* StatTimes milliseconds and succeeding or failing.
StatTimes == {10, 20, 30, 40}
StatOutcomes ==
    { [kind |-> "resolve", isError |-> FALSE, value |-> StepOutputPayload],
      [kind |-> "reject",  isError |-> TRUE,  value |-> "Network Error"] }

InitStats ==
    \E n \in 1..MaxStatRows :
      \E times \in [0..(n - 1) -> StatTimes] :
        \E outcome \in [0..(n - 1) -> StatOutcomes] :
          /\ stepInputsValid = TRUE
          /\ rowCount = n
          /\ concurrency = ConcurrencyFloor
          /\ pc = "running"
          /\ batchExecuting = TRUE
          /\ batchProgress = [current |-> n, total |-> n]
          /\ results = [i \in 0..(n - 1) |->
                          LET requestStartTime == SumSeq([k \in 1..i |-> times[k - 1]])
                          IN  executeRow(i, RowInput(i), outcome[i], requestStartTime,
                                         requestStartTime + times[i]).result]
          /\ batchResults = LiveSnapshot(results, n)
          /\ batchStats = NoStats
          /\ completedCount = n
          /\ currentIndex = n
          /\ batchStartTime = 0
          /\ totalRuntime = 0
          /\ workers = <<DoneWorker>>
          /\ now = SumSeq([k \in 1..n |-> times[k - 1]])
          /\ claimed = [i \in 0..(n - 1) |-> 1]
          /\ written = [i \in 0..(n - 1) |-> 1]
          /\ settled = [i \in 0..(n - 1) |-> outcome[i].kind]
          /\ OtherInit

NextStats == handleBatchExecuteResume

SpecStats == InitStats /\ [][NextStats]_vars

\* ------------------------------------------------ a run whose calls settle
\* The form with calls that succeed or fail with an Error. Every call that
\* is awaited settles, and the event loop then runs the continuation of its
\* worker; a resolved Promise.all resumes the handler.
LiveOutcomes == StatOutcomes \cup {BuildFailure}

NextLive ==
    \/ \E val \in 0..MaxConc : setConcurrency(val)
    \/ \E n \in 1..MaxRows : handleBatchExecute(n)
    \/ \E w \in 1..Max(MaxRows, MaxConc), o \in LiveOutcomes : processNext(w, o)
    \/ handleBatchExecuteResume
    \/ handleClearBatchResults
    \/ Tick

Fairness ==
    /\ \A w \in 1..Max(MaxRows, MaxConc) :
          WF_vars(\E o \in LiveOutcomes : processNext(w, o))
    /\ WF_vars(handleBatchExecuteResume)

SpecLive == Init /\ [][NextLive]_vars /\ Fairness

\* ------------------------------------------- workers competing for rows
\* The form with more rows than workers; calls succeed or fail with an Error.
NextPool ==
    \/ \E val \in ConcurrencyFloor..MaxConc : setConcurrency(val)
    \/ \E n \in 1..MaxPoolRows : handleBatchExecute(n)
    \/ \E w \in 1..MaxConc, o \in LiveOutcomes : processNext(w, o)
    \/ handleBatchExecuteResume
    \/ Tick

SpecPool == Init /\ [][NextPool]_vars

\* ----------------------------------------------------------- CSV export
\* Text is a sequence of characters. Chars gives the characters of a string
\* value; a run of characters other than comma, quote and line feed counts as
\* one character.
Comma == ","
Quote == "\""
LineFeed == "\n"
Chars(str) ==
    CASE str = "" -> <<>>
      [] str = "x,y" -> <<"x", Comma, "y">>
      [] str = "say \"hi\"" -> <<"say ", Quote, "hi", Quote>>
      [] str = "two\nlines" -> <<"two", LineFeed, "lines">>
      [] OTHER -> <<str>>

\* The StepOutput objects behind the values a call resolves with: their
\* executionState and outputs (name, value). Any other value has neither.
TwoOutputsPayload == "StepOutput:score,label"
TimedOutPayload == "StepOutput:timedOut"
IsStepOutput(v) == v \in {StepOutputPayload, TwoOutputsPayload, TimedOutPayload}
executionState(v) == IF v = TimedOutPayload THEN "timedOut" ELSE "completed"
outputs(v) ==
    CASE v = StepOutputPayload -> <<[name |-> "score", value |-> "x,y"]>>
      [] v = TwoOutputsPayload ->
            <<[name |-> "score", value |-> "say \"hi\""], [name |-> "label", value |-> Null]>>
      [] OTHER -> <<>>

RECURSIVE Concat(_)
Concat(ss) == IF ss = <<>> THEN <<>> ELSE Head(ss) \o Concat(Tail(ss))

\* parts.join(sep)
RECURSIVE Join(_, _)
Join(parts, sep) ==
    IF parts = <<>> THEN <<>>
    ELSE IF Len(parts) = 1 THEN parts[1]
    ELSE parts[1] \o <<sep>> \o Join(Tail(parts), sep)

\* A cell written as it stands.
QuoteCellRaw(cell) == cell
\* `"${String(cell).replace(/"/g, '""')}"`
QuoteCell(cell) ==
    <<Quote>> \o Concat([k \in 1..Len(cell) |->
                           IF cell[k] = Quote THEN <<Quote, Quote>> ELSE <<cell[k]>>])
              \o <<Quote>>

\* value === null || value === undefined ? '' : String(value)
CellText(value) == IF value = Null THEN <<>> ELSE Chars(value)

\* batchResults.find(r => r.output)?.output?.outputs?.map(o => o.name) ?? []
outputParams(rs) ==
    LET withOutput == SelectSeq(rs, LAMBDA r : Truthy(r.output))
    IN IF withOutput = <<>> THEN <<>>
       ELSE LET outs == outputs(withOutput[1].output)
            IN [k \in 1..Len(outs) |-> outs[k].name]

\* Object.keys(batchResults[0]?.input ?? {})
inputParams(rs) == [k \in 1..Len(rs[1].input) |-> k]

headers(rs) ==
    <<<<"Row">>, <<"Status">>>>
      \o [k \in 1..Len(inputParams(rs)) |-> <<"Input_", ToString(inputParams(rs)[k])>>]
      \o [k \in 1..Len(outputParams(rs)) |-> <<"Output_", outputParams(rs)[k]>>]
      \o <<<<"Error">>>>

\* result.output?.outputs?.find(o => o.name === param)?.value
OutputValue(result, param) ==
    LET found == SelectSeq(outputs(result.output), LAMBDA o : o.name = param)
    IN IF found = <<>> THEN Null ELSE found[1].value

\* One element of csvRows.
csvRow(result, rs) ==
    <<<<ToString(result.rowIndex + 1)>>,
      IF Truthy(result.error) THEN <<"Failed">>
      ELSE IF IsStepOutput(result.output) THEN <<executionState(result.output)>>
      ELSE <<"Unknown">>>>
      \o [k \in 1..Len(inputParams(rs)) |->
            IF inputParams(rs)[k] \in DOMAIN result.input
            THEN CellText(result.input[inputParams(rs)[k]]) ELSE <<>>]
      \o [k \in 1..Len(outputParams(rs)) |->
            CellText(OutputValue(result, outputParams(rs)[k]))]
      \o <<CellText(result.error)>>

\* csvContent: the header line, then one quoted line per element of csvRows.
CsvText(rs) ==
    Join(<<Join(headers(rs), Comma)>>
           \o [k \in 1..Len(rs) |->
                 Join([c \in 1..Len(csvRow(rs[k], rs)) |-> QuoteCell(csvRow(rs[k], rs)[c])],
                      Comma)],
         LineFeed)

\* The "Download CSV" button of BatchResults, which is rendered when
\* batchResults.length > 0 && !batchExecuting; the handler returns at once on
\* an empty list. It calls no setter.
handleDownloadResults ==
    /\ Len(batchResults) > 0
    /\ ~batchExecuting
    /\ csvContent' = CsvText(batchResults)
    /\ UNCHANGED <<batchVars, storeVars, refreshVars, clientVars, loginVars>>

\* The handler at its await with every worker ended, for batches whose rows
\* and answers hold the characters a CSV file gives a meaning to. All rows of
\* a batch carry the same fields (handleRunAll builds them from one mapping).
ExportValues == {Null, "a", "x,y", "say \"hi\""}
ExportRowInputs(fields) ==
    IF fields = 1 THEN {<<v>> : v \in ExportValues}
    ELSE {<<v, "two\nlines">> : v \in ExportValues}
ExportOutcomes ==
    { [kind |-> "resolve", isError |-> FALSE, value |-> StepOutputPayload],
      [kind |-> "resolve", isError |-> FALSE, value |-> TwoOutputsPayload],
      [kind |-> "resolve", isError |-> FALSE, value |-> TimedOutPayload],
      [kind |-> "resolve", isError |-> FALSE, value |-> EmptyString],
      [kind |-> "reject",  isError |-> TRUE,  value |-> "two\nlines"] }

InitExport ==
    \E n \in 1..MaxExportRows, fields \in 1..2 :
      \E input \in [0..(n - 1) -> ExportRowInputs(fields)] :
        \E outcome \in [0..(n - 1) -> ExportOutcomes] :
          /\ stepInputsValid = TRUE
          /\ rowCount = n
          /\ concurrency = ConcurrencyFloor
          /\ pc = "running"
          /\ batchExecuting = TRUE
          /\ batchProgress = [current |-> n, total |-> n]
          /\ results = [i \in 0..(n - 1) |->
                          executeRow(i, input[i], outcome[i], 0, 0).result]
          /\ batchResults = LiveSnapshot(results, n)
          /\ batchStats = NoStats
          /\ completedCount = n
          /\ currentIndex = n
          /\ batchStartTime = 0
          /\ totalRuntime = 0
          /\ workers = <<DoneWorker>>
          /\ now = 0
          /\ claimed = [i \in 0..(n - 1) |-> 1]
          /\ written = [i \in 0..(n - 1) |-> 1]
          /\ settled = [i \in 0..(n - 1) |-> outcome[i].kind]
          /\ OtherInit

NextExport ==
    \/ handleBatchExecuteResume
    \/ handleDownloadResults

SpecExport == InitExport /\ [][NextExport]_vars

\* ------------------------------------------------------- the token store
\* tokenStore keeps three keys: connections, activeConnectionId and
\* tokensByConnection.  randomUUID() is modelled by a counter: every id is new.
MaxIds == 2
Ids == 1..MaxIds
Settings == 1..2
NoConnection == [id |-> NoId, settings |-> 0]
\* The tokens a server issued for the credentials of connection issuedFor;
\* expired is expiresAt - 60 s <= Date.now().
StoredTokens == [issuedFor : Ids, expired : BOOLEAN]

HasConnection(list, id) == \E i \in 1..Len(list) : list[i].id = id
WithTokens(tokens, id, t) ==
    [i \in DOMAIN tokens \cup {id} |-> IF i = id THEN t ELSE tokens[i]]
WithoutTokensKeeping(tokens, id) == tokens
WithoutTokens(tokens, id) == [i \in DOMAIN tokens \ {id} |-> tokens[i]]
KnownId(list, id) == HasConnection(list, id)

getConnection ==
    IF activeConnectionId = NoId THEN NoConnection
    ELSE IF HasConnection(connections, activeConnectionId)
         THEN CHOOSE c \in {connections[i] : i \in 1..Len(connections)} :
                  c.id = activeConnectionId
         ELSE NoConnection
HasTokens == activeConnectionId # NoId /\ activeConnectionId \in DOMAIN tokensByConnection
\* What setTokens(t) and clearTokens() leave in tokensByConnection.
AfterSetTokens(t) ==
    IF activeConnectionId = NoId THEN tokensByConnection
    ELSE WithTokens(tokensByConnection, activeConnectionId, t)
AfterClearTokens ==
    IF activeConnectionId = NoId THEN tokensByConnection
    ELSE WithoutTokens(tokensByConnection, activeConnectionId)

addConnection(settings) ==
    /\ nextId <= MaxIds
    /\ connections' = Append(connections, [id |-> nextId, settings |-> settings])
    /\ nextId' = nextId + 1
    /\ UNCHANGED <<activeConnectionId, tokensByConnection>>

updateConnection(conn) ==
    /\ connections' =
           IF HasConnection(connections, conn.id)
           THEN [i \in 1..Len(connections) |->
                    IF connections[i].id = conn.id THEN conn ELSE connections[i]]
           ELSE connections
    /\ UNCHANGED <<activeConnectionId, tokensByConnection, nextId>>

deleteConnection(id) ==
    /\ connections' = SelectSeq(connections, LAMBDA c : c.id # id)
    /\ tokensByConnection' = WithoutTokens(tokensByConnection, id)
    /\ activeConnectionId' = IF activeConnectionId = id THEN NoId ELSE activeConnectionId
    /\ UNCHANGED nextId

setActiveConnection(id) ==
    /\ activeConnectionId' = IF KnownId(connections, id) THEN id ELSE activeConnectionId
    /\ UNCHANGED <<connections, tokensByConnection, nextId>>

setTokens(t) ==
    /\ tokensByConnection' = AfterSetTokens(t)
    /\ UNCHANGED <<connections, activeConnectionId, nextId>>

clearTokens ==
    /\ tokensByConnection' = AfterClearTokens
    /\ UNCHANGED <<connections, activeConnectionId, nextId>>

NextStore ==
    \/ \E st \in Settings : addConnection(st) /\ UNCHANGED <<batchVars, exportVars, refreshVars, clientVars, loginVars>>
    \/ \E id \in Ids, st \in Settings :
           updateConnection([id |-> id, settings |-> st])
           /\ UNCHANGED <<batchVars, exportVars, refreshVars, clientVars, loginVars>>
    \/ \E id \in Ids : deleteConnection(id) /\ UNCHANGED <<batchVars, exportVars, refreshVars, clientVars, loginVars>>
    \/ \E id \in Ids : setActiveConnection(id) /\ UNCHANGED <<batchVars, exportVars, refreshVars, clientVars, loginVars>>
    \/ \E t \in StoredTokens : setTokens(t) /\ UNCHANGED <<batchVars, exportVars, refreshVars, clientVars, loginVars>>
    \/ clearTokens /\ UNCHANGED <<batchVars, exportVars, refreshVars, clientVars, loginVars>>
SpecStore == Init /\ [][NextStore]_vars

\* ------------------------------------------- the main process: token refresh
\* The store is persistent: the main process starts with what earlier runs
\* left in it, here connections 1..n, any or no active connection, and for
\* each connection no tokens or its own tokens, expired or not.
MaxRefreshes == 2
SavedStore ==
    \E n \in 1..MaxIds, active \in 0..MaxIds, holders \in SUBSET Ids :
        /\ active <= n
        /\ holders \subseteq 1..n
        /\ \E exp \in [holders -> BOOLEAN] :
               /\ connections = [i \in 1..n |-> [id |-> i, settings |-> 1]]
               /\ activeConnectionId = active
               /\ tokensByConnection =
                      [i \in holders |-> [issuedFor |-> i, expired |-> exp[i]]]
               /\ nextId = n + 1
InitMain ==
    /\ BatchInit
    /\ csvContent = NoDownload
    /\ SavedStore
    /\ RefreshInit
    /\ ClientInit
    /\ LoginInit

Pending == {k \in 1..Len(refreshes) : refreshes[k].state = "pending"}
Returned(kind, promise) ==
    [kind |-> kind, promise |-> promise, seq |-> 1 - lastAccess.seq]

\* conn:setActive.
MarkerAfterSetActive(marker) == NoPromise
connSetActive(id) ==
    /\ setActiveConnection(id)
    /\ refreshInFlight' = MarkerAfterSetActive(refreshInFlight)
    /\ UNCHANGED <<refreshes, lastAccess>>
    /\ UNCHANGED <<batchVars, exportVars, clientVars, loginVars>>

\* Date.now() passes expiresAt - 60 s of the tokens stored for id.
tokenExpires(id) ==
    /\ id \in DOMAIN tokensByConnection
    /\ ~tokensByConnection[id].expired
    /\ tokensByConnection' = [tokensByConnection EXCEPT ![id].expired = TRUE]
    /\ UNCHANGED <<connections, activeConnectionId, nextId, refreshVars>>
    /\ UNCHANGED <<batchVars, exportVars, clientVars, loginVars>>

\* auth:getAccessToken up to its return. The async function in the middle
\* runs to its await inside the call: the request is sent with the
\* credentials of the connection that is active now.
authGetAccessToken ==
    /\ Len(refreshes) < MaxRefreshes
    /\ IF ~HasTokens
       THEN /\ lastAccess' = Returned("null", NoPromise)
            /\ UNCHANGED <<refreshInFlight, refreshes>>
       ELSE IF ~tokensByConnection[activeConnectionId].expired
       THEN /\ lastAccess' = Returned("token", NoPromise)
            /\ UNCHANGED <<refreshInFlight, refreshes>>
       ELSE IF refreshInFlight # NoPromise
       THEN /\ lastAccess' = Returned("promise", refreshInFlight)
            /\ UNCHANGED <<refreshInFlight, refreshes>>
       ELSE /\ refreshes' = Append(refreshes,
                [state |-> IF getConnection = NoConnection THEN "null" ELSE "pending",
                 connection |-> getConnection.id])
            /\ refreshInFlight' = Len(refreshes) + 1
            /\ lastAccess' = Returned("promise", Len(refreshes) + 1)
    /\ UNCHANGED storeVars
    /\ UNCHANGED <<batchVars, exportVars, clientVars, loginVars>>

\* The rest of the async function once refreshAccessToken has settled:
\* setTokens on success, clearTokens on failure, and the finally block.
refreshSettles(k, ok) ==
    /\ k \in Pending
    /\ IF ok
       THEN setTokens([issuedFor |-> refreshes[k].connection, expired |-> FALSE])
       ELSE clearTokens
    /\ refreshes' = [refreshes EXCEPT ![k].state = IF ok THEN "token" ELSE "null"]
    /\ refreshInFlight' = NoPromise
    /\ UNCHANGED lastAccess
    /\ UNCHANGED <<batchVars, exportVars, clientVars, loginVars>>

NextRefresh ==
    \/ \E id \in Ids : connSetActive(id)
    \/ \E id \in Ids : tokenExpires(id)
    \/ authGetAccessToken
    \/ \E k \in 1..MaxRefreshes, ok \in BOOLEAN : refreshSettles(k, ok)
SpecRefresh == InitMain /\ [][NextRefresh]_vars

\* ------------------------------------------------ the main process: login
\* auth:startLogin opens a window and returns a promise; handleUrl runs on
\* every navigation event of the window, 'closed' fires once the window is
\* gone, whether the user or authWindow.close() closed it. One attempt is
\* modelled at a time.
NavigationEvents == {"will-redirect", "will-navigate", "did-navigate"}
Settle(promise, outcome) == IF promise = "pending" THEN outcome ELSE promise

\* auth:startLogin: without a connection it throws, otherwise the window
\* opens with the active connection captured.
authStartLogin ==
    /\ login.window \in {"none", "closed"}
    /\ login.exchange # "pending"
    /\ login' = IF getConnection = NoConnection THEN login
                ELSE [connection |-> getConnection.id, completed |-> FALSE,
                      window |-> "open", exchanges |-> 0, exchange |-> "none",
                      promise |-> "pending"]
    /\ UNCHANGED <<storeVars, refreshVars>>
    /\ UNCHANGED <<batchVars, exportVars, clientVars>>

\* handleUrl up to its await, for an event whose url holds a code or not.
handleUrl(event, hasCode) ==
    /\ login.window \in {"open", "closing"}
    /\ login' = IF login.completed \/ ~hasCode THEN login
                ELSE [login EXCEPT !.completed = TRUE, !.window = "closing",
                                   !.exchanges = @ + 1, !.exchange = "pending"]
    /\ UNCHANGED <<storeVars, refreshVars>>
    /\ UNCHANGED <<batchVars, exportVars, clientVars>>

\* handleUrl after exchangeCodeForTokens has settled.
exchangeSettles(ok) ==
    /\ login.exchange = "pending"
    /\ IF ok
       THEN /\ setTokens([issuedFor |-> login.connection, expired |-> FALSE])
            /\ login' = [login EXCEPT !.exchange = "done",
                                      !.promise = Settle(@, "resolved")]
       ELSE /\ login' = [login EXCEPT !.exchange = "failed",
                                      !.promise = Settle(@, "rejected")]
            /\ UNCHANGED storeVars
    /\ UNCHANGED refreshVars
    /\ UNCHANGED <<batchVars, exportVars, clientVars>>

\* The window's 'closed' event.
windowClosed ==
    /\ login.window \in {"open", "closing"}
    /\ login' = [login EXCEPT !.window = "closed",
                              !.promise = IF login.completed THEN @
                                          ELSE Settle(@, "rejected")]
    /\ UNCHANGED <<storeVars, refreshVars>>
    /\ UNCHANGED <<batchVars, exportVars, clientVars>>

\* conn:delete.
connDelete(id) ==
    /\ deleteConnection(id)
    /\ UNCHANGED refreshVars
    /\ UNCHANGED <<batchVars, exportVars, clientVars, loginVars>>

NextLogin ==
    \/ authStartLogin
    \/ \E event \in NavigationEvents, hasCode \in BOOLEAN : handleUrl(event, hasCode)
    \/ \E ok \in BOOLEAN : exchangeSettles(ok)
    \/ windowClosed
    \/ \E id \in Ids : connDelete(id)
    \/ \E id \in Ids : connSetActive(id)
SpecLogin == InitMain /\ [][NextLogin]_vars

\* ------------------------------------------------------- the API client
\* apiClient: the request interceptor adds the cached token to mutating
\* requests; the error handler of the response interceptor retries a 403
\* that brings a token. A retry goes through client(originalRequest): its
\* request interceptor runs in the microtasks of the same task, before any
\* other response is handled, so both are one step.
MaxSends == 3
Forbidden == 403
Unauthorized == 401
ServerError == 500
NoResponse == 0
Methods == {"GET", "POST"}
Mutating(method) == method \in {"POST", "PUT", "DELETE", "PATCH"}
\* x-csrf-token of a response: absent, empty, or a token. The handler reads
\* the header of a 403 only.
CsrfHeaders == {Null, EmptyString, "t1", "t2"}
ErrorStatuses == {Forbidden, Unauthorized, ServerError, NoResponse}

\* The X-CSRF-TOKEN header after the request interceptor.
RequestInterceptor(method, header, cached) ==
    IF Mutating(method) /\ Truthy(cached) THEN cached ELSE header
MarkRetriedForgotten == FALSE
MarkRetried == TRUE
\* What the caller's promise is rejected with: the fixed message on a 401,
\* otherwise the message of the response body or the AxiosError itself.
Rejection(status) ==
    IF status = Unauthorized THEN "Authentication required. Please log in."
    ELSE IF status # NoResponse THEN "message" ELSE "AxiosError"

clientRequest(r, method) ==
    /\ requests[r].state = "new"
    /\ requests' = [requests EXCEPT ![r] =
           [@ EXCEPT !.method = method, !.state = "sent", !.sent = 1,
                     !.header = RequestInterceptor(method, Null, csrfToken)]]
    /\ UNCHANGED csrfToken
    /\ UNCHANGED <<batchVars, exportVars, storeVars, refreshVars, loginVars>>

onFulfilled(r) ==
    /\ requests[r].state = "sent"
    /\ requests' = [requests EXCEPT ![r].state = "resolved"]
    /\ UNCHANGED csrfToken
    /\ UNCHANGED <<batchVars, exportVars, storeVars, refreshVars, loginVars>>

onRejected(r, status, newToken) ==
    /\ requests[r].state = "sent"
    /\ requests[r].sent < MaxSends
    /\ IF status = Forbidden /\ ~requests[r].csrfRetry /\ Truthy(newToken)
       THEN /\ csrfToken' = newToken
            /\ requests' = [requests EXCEPT ![r] =
                   [@ EXCEPT !.csrfRetry = MarkRetried, !.sent = @ + 1,
                             !.status = status, !.newToken = newToken,
                             !.header = RequestInterceptor(requests[r].method, newToken,
                                                          newToken)]]
       ELSE /\ requests' = [requests EXCEPT ![r] =
                   [@ EXCEPT !.state = "rejected", !.status = status,
                             !.newToken = newToken,
                             !.error = Rejection(status)]]
            /\ UNCHANGED csrfToken
    /\ UNCHANGED <<batchVars, exportVars, storeVars, refreshVars, loginVars>>

clearCsrfToken ==
    /\ csrfToken' = Null
    /\ UNCHANGED requests
    /\ UNCHANGED <<batchVars, exportVars, storeVars, refreshVars, loginVars>>

NextClient ==
    \/ \E r \in 1..MaxRequests, method \in Methods : clientRequest(r, method)
    \/ \E r \in 1..MaxRequests : onFulfilled(r)
    \/ \E r \in 1..MaxRequests, status \in ErrorStatuses, newToken \in CsrfHeaders :
           /\ status # Forbidden => newToken = Null
           /\ onRejected(r, status, newToken)
    \/ clearCsrfToken
SpecClient == Init /\ [][NextClient]_vars

\* ---------------------------------------------------------------- claims
HasStats == batchStats.totalRequests >= 0
Finished == pc = "done" /\ HasStats
AllStored == \A i \in RowIndexes : ~IsUndefined(results[i])
RowIndexesOf(rs) == {rs[k].rowIndex : k \in 1..Len(rs)}
Ascending(rs) == \A k \in 1..(Len(rs) - 1) : rs[k].rowIndex < rs[k + 1].rowIndex
Present(v) == Truthy(v)

\* C1: when handleBatchExecute finishes a batch of N >= 1 rows with
\* concurrency >= 1, it has not failed and the final result list has exactly
\* N entries whose rowIndex values are exactly 0..N-1: one Result per row.
C1_OneResultPerRow ==
    /\ pc # "failed"
    /\ Finished => /\ Len(batchResults) = rowCount
                   /\ RowIndexesOf(batchResults) = RowIndexes
                   /\ Cardinality(RowIndexesOf(batchResults)) = rowCount
                   /\ \A k \in 1..Len(batchResults) : ~IsUndefined(batchResults[k])

C1_Witness ==
    /\ Finished
    /\ rowCount = 2
    /\ concurrency = 2
    /\ RowIndexesOf(batchResults) = {0, 1}

\* C2: a failing call never stops a worker or the batch. In the step in which
\* a row's call fails, executeRow fulfils with a Result that has error set and
\* no output, the worker that ran it claims the row under the cursor (or
\* leaves its loop when no row is left), no other worker is touched, and the
\* handler never fails; when the batch is done every row has its Result.
C2_RowFailureIsolated ==
    [][ /\ pc' # "failed"
        /\ pc' = "done" => AllStored'
        /\ \A w \in DOMAIN workers :
              LET i == workers[w].index IN
              (/\ workers[w].state = "await"
               /\ settled[i] = "pending"
               /\ settled'[i] = "reject")
              => /\ ~IsUndefined(results'[i])
                 /\ results'[i].rowIndex = i
                 /\ results'[i].error # Null
                 /\ results'[i].output = Null
                 /\ workers'[w].state # "rejected"
                 /\ IF currentIndex < rowCount
                    THEN workers'[w].state = "await" /\ workers'[w].index = currentIndex
                    ELSE workers'[w].state = "done"
                 /\ \A v \in DOMAIN workers \ {w} : workers'[v] = workers[v]
      ]_vars

C2_Witness ==
    /\ Finished
    /\ concurrency = 1
    /\ rowCount = 2
    /\ settled[0] = "reject"
    /\ settled[1] = "resolve"
    /\ Truthy(results[1].output)

\* C3: the number of executeRow calls started and not yet settled never
\* exceeds min(concurrency, N).
C3_ConcurrencyCeiling ==
    Cardinality(InFlight) <= Min(concurrency, rowCount)

C3_Witness ==
    /\ pc = "running"
    /\ concurrency = 2
    /\ rowCount = 2
    /\ Cardinality(InFlight) = 2

\* C4: every row index is claimed at most once (exactly once below the
\* cursor, never at or above it), the calls in flight are for distinct rows,
\* each slot of results is written at most once, the cursor never exceeds N
\* and, within a batch, never decreases.
C4_ClaimsDistinct ==
    /\ currentIndex >= 0 /\ currentIndex <= rowCount
    /\ \A i \in RowIndexes : /\ claimed[i] = (IF i < currentIndex THEN 1 ELSE 0)
                             /\ written[i] <= claimed[i]
    /\ \A w, v \in InFlight : w # v => workers[w].index # workers[v].index
    /\ \A w \in InFlight : workers[w].index \in RowIndexes /\ written[workers[w].index] = 0

C4_CursorMonotonic ==
    [][pc = "running" /\ pc' = "running" => currentIndex' >= currentIndex]_vars

C4_AtomicCursor == []C4_ClaimsDistinct /\ C4_CursorMonotonic

C4_Witness ==
    /\ Finished
    /\ rowCount = 2
    /\ concurrency = 2
    /\ \A i \in RowIndexes : claimed[i] = 1 /\ written[i] = 1

\* C5: the final result list published at the end of the batch is strictly
\* ascending by rowIndex.
C5_FinalListAscending == Finished => Ascending(batchResults) /\ Len(batchResults) = rowCount

\* Both rows were started together and row 1 took less time: it completed first.
C5_Witness ==
    /\ Finished
    /\ rowCount = 2
    /\ concurrency = 2
    /\ results[1].executionTime < results[0].executionTime
    /\ Len(batchResults) = 2

\* C6: every live snapshot published while the batch runs is ascending by
\* rowIndex and holds exactly the rows stored so far.
C6_LiveSnapshotAscending ==
    pc = "running" => /\ Ascending(batchResults)
                      /\ RowIndexesOf(batchResults) =
                            {i \in RowIndexes : ~IsUndefined(results[i])}

\* Row 1 completed first and was published alone; row 0 joined it later.
C6_Witness ==
    /\ pc = "running"
    /\ Len(batchResults) = 2
    /\ results[1].executionTime < results[0].executionTime
    /\ concurrency = 2 /\ rowCount = 2

\* C7: handleBatchExecute leaves its await (takes totalRuntime, computes the
\* statistics, clears batchExecuting) only from a state in which all N
\* results are stored and no call is in flight, and it then completes.
C7_ResolvesOnlyWhenComplete ==
    [][ (pc = "running" /\ pc' # "running")
        => /\ AllStored
           /\ InFlight = {}
           /\ completedCount = rowCount
           /\ pc' = "done" /\ HasStats' /\ ~batchExecuting'
           /\ batchStats'.totalRequests = rowCount
      ]_vars

C7_Witness ==
    /\ Finished
    /\ ~batchExecuting
    /\ rowCount = 2
    /\ completedCount = 2
    /\ totalRuntime = 1

\* C8: for every completed batch successCount + errorCount = totalRequests.
C8_CountsSumToTotal ==
    HasStats => batchStats.successCount + batchStats.errorCount = batchStats.totalRequests

\* C9: every Result returned by executeRow has exactly one of output and error
\* present.
C9_ExactlyOneOfOutputAndError ==
    \A i \in RowIndexes :
        ~IsUndefined(results[i]) => (Present(results[i].output) # Present(results[i].error))

\* C10: errorCount is the number of rows whose call failed and successCount
\* the number of rows whose call succeeded.
C10_CountsMatchOutcomes ==
    Finished => /\ batchStats.errorCount =
                      Cardinality({i \in RowIndexes : settled[i] = "reject"})
                /\ batchStats.successCount =
                      Cardinality({i \in RowIndexes : settled[i] = "resolve"})

\* ------------------------------------------------- claims on the statistics
TimesOfResults == [k \in 1..rowCount |-> results[k - 1].executionTime]
TimeValues == {TimesOfResults[k] : k \in 1..rowCount}
CountBelow(v) == Cardinality({k \in 1..rowCount : TimesOfResults[k] < v})
CountUpTo(v) == Cardinality({k \in 1..rowCount : TimesOfResults[k] <= v})
\* The k-th element of the times in ascending order.
KthSmallest(k) == CHOOSE v \in TimeValues : CountBelow(v) < k /\ CountUpTo(v) >= k

\* C11: medianResponse is the middle element of the ascending execution
\* times when their count is odd and the mean of the two middle elements when
\* it is even, in whatever order the times stand in the result list; the
\* times 10, 20, 30 give 20 and the times 10, 20, 30, 40 give 25.
C11_MedianCorrect ==
    Finished =>
        LET m == batchStats.medianResponse IN
        /\ IF rowCount % 2 = 1
           THEN m.den = 1 /\ m.num = KthSmallest((rowCount + 1) \div 2)
           ELSE m.num * 2 =
                  (KthSmallest(rowCount \div 2) + KthSmallest(rowCount \div 2 + 1)) * m.den
        /\ (rowCount = 3 /\ TimeValues = {10, 20, 30}) => m = [num |-> 20, den |-> 1]
        /\ (rowCount = 4 /\ TimeValues = {10, 20, 30, 40}) => m = [num |-> 25, den |-> 1]

C11_Witness ==
    /\ Finished
    /\ TimesOfResults = <<40, 10, 30, 20>>
    /\ batchStats.medianResponse = [num |-> 25, den |-> 1]

C13_ResultListUnchanged ==
    Finished =>
        /\ Len(batchResults) = rowCount
        /\ Ascending(batchResults)
        /\ \A k \in 1..rowCount : batchResults[k] = results[k - 1]

\* Times descending in row order: sorting them reorders them.
C13_Witness ==
    /\ Finished
    /\ batchStats.fastestResponse = 10
    /\ Len(batchResults) = 3
    /\ batchResults[1].rowIndex = 0 /\ batchResults[1].executionTime = 30
    /\ batchResults[2].rowIndex = 1 /\ batchResults[2].executionTime = 20
    /\ batchResults[3].rowIndex = 2 /\ batchResults[3].executionTime = 10

C15_WorkerCountClamped ==
    /\ batchExecuting =>
          /\ Len(workers) = (IF concurrency < rowCount THEN concurrency ELSE rowCount)
          /\ Len(workers) >= 1
    /\ (rowCount = 1 /\ pc \in {"running", "done"}) =>
          /\ Len(workers) = 1
          /\ claimed[0] = 1
          /\ written[0] <= 1
          /\ pc = "done" => written[0] = 1
          /\ Finished => Len(batchResults) = 1

C15_Witness ==
    /\ Finished
    /\ rowCount = 1
    /\ concurrency = ConcurrencyCeiling
    /\ Len(workers) = 1
    /\ claimed[0] = 1
    /\ settled[0] = "resolve"
    /\ Len(batchResults) = 1

C17_ForwardOnly ==
    [][/\ pc = "running" =>
            /\ pc' \in {"running", "done"}
            /\ rowCount' = rowCount
            /\ batchStartTime' = batchStartTime
            /\ \A i \in RowIndexes : ~IsUndefined(results[i]) => results'[i] = results[i]
            /\ completedCount' >= completedCount
            /\ batchProgress'.current >= batchProgress.current
            /\ batchProgress'.total = batchProgress.total
            /\ Len(batchResults') >= Len(batchResults)
            /\ batchStats = NoStats
            /\ \A n \in 1..MaxRows : ~RunAllEnabled(n)
       /\ (pc # "running" /\ pc' = "running") =>
            /\ ~batchExecuting
            /\ completedCount' = 0
            /\ batchProgress'.current = 0
            /\ batchResults' = <<>>
            /\ \A i \in 0..(rowCount' - 1) : IsUndefined(results'[i])
       /\ batchExecuting' <=> pc' = "running"]_vars

\* A second batch completed after a first one: it started at time 1, and time
\* only passes while a batch runs.
C17_Witness ==
    /\ Finished
    /\ batchStartTime = 1
    /\ rowCount = 2
    /\ Len(batchResults) = 2

\* C18: when every call settles, a batch started from the form (N >= 1,
\* concurrency >= 1) eventually has every row claimed and stored and reaches
\* the state with batchStats set and batchExecuting false.
C18_BatchCompletes ==
    (pc = "running") ~>
        (/\ pc = "done"
         /\ HasStats
         /\ ~batchExecuting
         /\ \A i \in RowIndexes : claimed[i] = 1 /\ written[i] = 1)

\* Three rows through two workers, run to the end.
C18_Witness ==
    /\ Finished
    /\ ~batchExecuting
    /\ rowCount = MaxRows
    /\ concurrency = MaxRows - 1
    /\ batchStats.totalRequests = MaxRows

\* C19: totalRuntime is the time elapsed on the one clock from the start of
\* the batch to the resumption of the handler after the last Result, so it
\* is at least the executionTime of every row and at least slowestResponse;
\* it is not the sum of the rows' times (the witness has it smaller).
C19_TotalRuntimeIsElapsed ==
    Finished =>
        /\ totalRuntime = now - batchStartTime
        /\ batchStats.totalRuntime = totalRuntime
        /\ \A i \in RowIndexes : results[i].executionTime <= totalRuntime
        /\ batchStats.slowestResponse <= totalRuntime

\* Two calls of 1 ms side by side: 1 ms elapsed, 2 ms summed.
C19_Witness ==
    /\ Finished
    /\ concurrency = 2
    /\ rowCount = 2
    /\ results[0].executionTime = 1
    /\ results[1].executionTime = 1
    /\ totalRuntime = 1
    /\ totalRuntime < SumSeq(TimesOfResults)

\* C20: a row's executionTime runs from the start of its own call to the
\* moment that call settles, whether it succeeds or fails. A worker that
\* enters a call takes the start time at that moment, after it has claimed the
\* row; the Result stored for the row carries the time elapsed since then (0
\* when building the input fails and no request is sent), not the time since
\* the batch started.
C20_TimedFromOwnCall ==
    [][/\ \A w \in DOMAIN workers' :
            (/\ workers'[w].state = "await"
             /\ (w \in DOMAIN workers => workers[w] # workers'[w]))
            => workers'[w].requestStartTime = now'
       /\ \A i \in RowIndexes :
            (rowCount' = rowCount /\ written'[i] = written[i] + 1) =>
                \E w \in DOMAIN workers :
                    /\ workers[w].state = "await"
                    /\ workers[w].index = i
                    /\ workers'[w] # workers[w]
                    /\ results'[i].executionTime =
                         (IF workers[w].call = "remote"
                          THEN now - workers[w].requestStartTime ELSE 0)]_vars

\* One worker, two rows: row 0 takes 1 ms; row 1 waits for it, then fails at
\* once. Its time is 0, not the 1 ms since the batch started.
C20_Witness ==
    /\ Finished
    /\ stepInputsValid
    /\ concurrency = 1
    /\ rowCount = 2
    /\ results[0].executionTime = 1
    /\ results[1].executionTime = 0
    /\ settled[1] = "reject"
    /\ totalRuntime = 1

C23_Claimed == {i \in RowIndexes : claimed[i] >= 1}
C23_NoIdleWorker ==
    pc = "running" =>
        /\ C23_Claimed = 0..(currentIndex - 1)
        /\ currentIndex <= rowCount
        /\ currentIndex < rowCount =>
              /\ \A w \in DOMAIN workers : workers[w].state = "await"
              /\ Cardinality(InFlight) = Len(workers)
C23_ClaimsNextOnCompletion ==
    [][(pc = "running" /\ pc' = "running") =>
          \A w \in DOMAIN workers :
              (workers[w].state = "await" /\ workers'[w] # workers[w]) =>
                  IF currentIndex < rowCount
                  THEN /\ workers'[w].state = "await"
                       /\ workers'[w].index = currentIndex
                       /\ currentIndex' = currentIndex + 1
                  ELSE /\ workers'[w].state = "done"
                       /\ currentIndex' = currentIndex]_vars
C23_WorkStealing == []C23_NoIdleWorker /\ C23_ClaimsNextOnCompletion

\* Three rows, two workers: worker 1 has finished row 0 and holds row 2 while
\* worker 2 is still on row 1.
C23_Witness ==
    /\ pc = "running"
    /\ rowCount = 3
    /\ Len(workers) = 2
    /\ written[0] = 1
    /\ workers[1].state = "await" /\ workers[1].index = 2
    /\ workers[2].state = "await" /\ workers[2].index = 1

\* C24: while a batch runs, the live list that is published holds exactly the
\* Results of the rows completed so far, each as it was stored, and progress
\* reads current = number of completions, total = N; each completion raises
\* the counter by exactly 1, and it reads N when the batch has ended.
C24_SnapshotInv ==
    /\ pc = "running" =>
          /\ Len(batchResults) = completedCount
          /\ RowIndexesOf(batchResults) = {i \in RowIndexes : written[i] >= 1}
          /\ \A k \in 1..Len(batchResults) :
                /\ ~IsUndefined(batchResults[k])
                /\ batchResults[k] = results[batchResults[k].rowIndex]
          /\ batchProgress = [current |-> completedCount, total |-> rowCount]
    /\ Finished => batchProgress = [current |-> rowCount, total |-> rowCount]
C24_CounterStep ==
    [][(pc = "running" /\ pc' = "running") =>
          IF \E i \in RowIndexes : written'[i] # written[i]
          THEN batchProgress'.current = batchProgress.current + 1
          ELSE batchProgress' = batchProgress /\ batchResults' = batchResults]_vars
C24_LiveSnapshotExact == []C24_SnapshotInv /\ C24_CounterStep

\* Three rows, rows 0 and 2 completed, row 1 still in flight.
C24_Witness ==
    /\ pc = "running"
    /\ rowCount = 3
    /\ batchProgress = [current |-> 2, total |-> 3]
    /\ Len(batchResults) = 2
    /\ batchResults[1].rowIndex = 0
    /\ batchResults[2].rowIndex = 2
    /\ settled[1] = "pending"

\* ------------------------------------------------------ claims on the export
\* A reader of comma-separated text: a cell that opens with a quote runs to
\* its closing quote, a doubled quote inside it standing for one; a comma ends
\* a cell and a line feed ends a record.
\* The reader goes through the text one character at a time; after a quote
\* inside a quoted cell it waits for the next character to tell a doubled
\* quote from the closing one.
CsvStart == [mode |-> "plain", cell |-> <<>>, row |-> <<>>, rows |-> <<>>]
PlainChar(st, ch) ==
    IF ch = Quote /\ st.cell = <<>> THEN [st EXCEPT !.mode = "quoted"]
    ELSE IF ch = Comma
    THEN [mode |-> "plain", cell |-> <<>>, row |-> Append(st.row, st.cell),
          rows |-> st.rows]
    ELSE IF ch = LineFeed
    THEN [mode |-> "plain", cell |-> <<>>, row |-> <<>>,
          rows |-> Append(st.rows, Append(st.row, st.cell))]
    ELSE [st EXCEPT !.mode = "plain", !.cell = Append(@, ch)]
ReadChar(st, ch) ==
    IF st.mode = "quoted"
    THEN IF ch = Quote THEN [st EXCEPT !.mode = "closing"]
         ELSE [st EXCEPT !.cell = Append(@, ch)]
    ELSE IF st.mode = "closing" /\ ch = Quote
    THEN [st EXCEPT !.mode = "quoted", !.cell = Append(@, Quote)]
    ELSE PlainChar(st, ch)
\* The characters lo..hi of the text, read from the state st.
RECURSIVE ReadCsv(_, _, _, _)
ReadCsv(st, text, lo, hi) ==
    IF lo > hi THEN st
    ELSE IF lo = hi THEN ReadChar(st, text[lo])
    ELSE LET mid == (lo + hi) \div 2
         IN CHOOSE read \in {ReadCsv(left, text, mid + 1, hi) :
                                  left \in {ReadCsv(st, text, lo, mid)}} : TRUE
Records ==
    LET end == ReadCsv(CsvStart, csvContent, 1, Len(csvContent))
    IN Append(end.rows, Append(end.row, end.cell))
FirstOutputs ==
    LET withOutput == SelectSeq(batchResults, LAMBDA r : Truthy(r.output))
    IN IF withOutput = <<>> THEN <<>> ELSE outputs(withOutput[1].output)

\* C22: the exported text reads back as one header record and one record per
\* Result, in list order; every record has the cells Row, Status, one per
\* input field, one per output field and Error; the Row cell is rowIndex + 1
\* and the input and Error cells read back as the values written (null as
\* the empty text); exporting leaves results and statistics as they were.
C22_ExportShape ==
    csvContent # NoDownload =>
        LET width == 2 + Len(batchResults[1].input) + Len(FirstOutputs) + 1 IN
        \E records \in {Records} :
        /\ Len(records) = 1 + Len(batchResults)
        /\ \A k \in 1..Len(records) : Len(records[k]) = width
        /\ records[1][1] = <<"Row">>
        /\ records[1][2] = <<"Status">>
        /\ records[1][width] = <<"Error">>
        /\ \A k \in 1..Len(batchResults) :
              /\ records[k + 1][1] = <<ToString(batchResults[k].rowIndex + 1)>>
              /\ records[k + 1][width] = CellText(batchResults[k].error)
              /\ \A f \in 1..Len(batchResults[k].input) :
                    records[k + 1][2 + f] = CellText(batchResults[k].input[f])
C22_ExportPure == [][csvContent' # csvContent => UNCHANGED batchVars]_vars
ConnectionIds == {connections[i].id : i \in 1..Len(connections)}

\* C27: after any sequence of store calls the active id is null or the id of
\* a connection in the list, and tokens are held only for existing
\* connections; deleting a connection removes its tokens and clears the
\* active id if it was the active one, and activating an unknown id changes
\* nothing.
C27_StoreInv ==
    /\ activeConnectionId = NoId \/ activeConnectionId \in ConnectionIds
    /\ DOMAIN tokensByConnection \subseteq ConnectionIds
C27_StoreStep ==
    [][/\ \A id \in ConnectionIds \ ConnectionIds' :
              /\ id \notin DOMAIN tokensByConnection'
              /\ activeConnectionId = id => activeConnectionId' = NoId
       /\ activeConnectionId' # activeConnectionId =>
              activeConnectionId' = NoId \/ activeConnectionId' \in ConnectionIds]_vars
C27_StoreConsistent == []C27_StoreInv /\ C27_StoreStep
\* The second connection was deleted while active and holding tokens, and
\* the first one has since been activated and given tokens.
C27_Witness ==
    /\ nextId = 3
    /\ ConnectionIds = {1}
    /\ activeConnectionId = 1
    /\ DOMAIN tokensByConnection = {1}


\* ------------------------------------------------ claims on the token refresh
\* C25: at any time at most one refreshAccessToken request is in flight, and
\* a getAccessToken call that finds expired tokens while a refresh is in
\* flight returns the promise of that refresh, however the calls interleave
\* with conn:setActive.
C25_OneInFlight == Cardinality(Pending) <= 1
C25_JoinsRefresh ==
    [][(/\ lastAccess'.seq # lastAccess.seq
        /\ Pending # {}
        /\ HasTokens
        /\ tokensByConnection[activeConnectionId].expired)
       => /\ lastAccess'.kind = "promise"
          /\ lastAccess'.promise \in Pending
          /\ refreshes' = refreshes]_vars
C25_SingleFlight == []C25_OneInFlight /\ C25_JoinsRefresh

\* C26: tokens obtained with the credentials of a connection are stored only
\* under that connection, and a failed refresh removes only the tokens of
\* the connection it was sent for, even if the active connection changes
\* while the request is in flight.
C26_OwnTokensOnly ==
    \A id \in DOMAIN tokensByConnection : tokensByConnection[id].issuedFor = id
C26_ClearsOwnOnly ==
    [][\A k \in Pending :
          refreshes'[k].state = "null" =>
              \A id \in DOMAIN tokensByConnection \ {refreshes[k].connection} :
                  id \in DOMAIN tokensByConnection']_vars
C26_NeverCross == []C26_OwnTokensOnly /\ C26_ClearsOwnOnly


\* ------------------------------------------------- claims on the API client
\* C28: a request is sent at most twice; it is sent again only on a 403 whose
\* x-csrf-token header holds a token, the retry carries that token and the
\* token is cached, so that a later mutating request carries the cached token;
\* a 403 on the retry rejects the caller's promise and is not retried.
C28_AtMostOneRetry ==
    \A r \in 1..MaxRequests :
        /\ requests[r].sent <= 2
        /\ requests[r].sent = 2 => requests[r].csrfRetry
C28_RetryStep ==
    [][\A r \in 1..MaxRequests :
          /\ requests'[r].sent > requests[r].sent /\ requests[r].sent >= 1
                => /\ requests'[r].status = Forbidden
                   /\ Truthy(requests'[r].newToken)
                   /\ requests'[r].header = requests'[r].newToken
                   /\ csrfToken' = requests'[r].newToken
          /\ requests[r].state = "sent" /\ requests'[r].state = "rejected"
             /\ requests'[r].status = Forbidden
                => /\ requests[r].sent = 2 \/ ~Truthy(requests'[r].newToken)
                   /\ requests'[r].sent = requests[r].sent
                   /\ requests'[r].error # Null
                   /\ csrfToken' = csrfToken
          /\ requests[r].state = "new" /\ requests'[r].state = "sent"
             /\ Mutating(requests'[r].method) /\ Truthy(csrfToken)
                => requests'[r].header = csrfToken]_vars
C28_RetriedOnce == []C28_AtMostOneRetry /\ C28_RetryStep
\* The first request was retried with the token of its 403 and rejected on
\* the second 403; the second request, a POST made later, carries the token.
C28_Witness ==
    /\ requests[1].state = "rejected"
    /\ requests[1].sent = 2
    /\ requests[1].status = Forbidden
    /\ requests[1].header = "t1"
    /\ requests[1].newToken = "t2"
    /\ csrfToken = "t1"
    /\ requests[2].method = "POST"
    /\ requests[2].state = "sent"
    /\ requests[2].header = "t1"


\* ------------------------------------------------------ claims on the login
\* C29: during one login attempt the code is exchanged at most once whatever
\* navigation events carry a code; the login promise resolves only when the
\* new tokens are in the store; closing the window rejects the promise when
\* no code has been captured and leaves it alone when the handler closed the
\* window after capturing one.
C29_ExchangedOnce == login.exchanges <= 1
C29_LoginStep ==
    [][/\ login.promise = "pending" /\ login'.promise = "resolved"
            => \E id \in DOMAIN tokensByConnection' :
                   tokensByConnection'[id] =
                       [issuedFor |-> login.connection, expired |-> FALSE]
       /\ login.window # "closed" /\ login'.window = "closed"
            => IF login.completed
               THEN login'.promise = login.promise
               ELSE login'.promise = "rejected"]_vars
C29_LoginAttempt == []C29_ExchangedOnce /\ C29_LoginStep

====
